---- MODULE Spec2Model ----
(***************************************************************************)
(* WASM module host of crates/wasm/src/shared/mod.rs: the module lifecycle *)
(* (load / reload / unload), the per-tick systems, the error accumulation  *)
(* policy and the guest event API (subscribe / send).                      *)
(*                                                                         *)
(* The handlers of the source are operators from a host state record `s`   *)
(* to a host state record, so that a handler that calls another handler    *)
(* (update_errors -> unload -> run -> update_errors) is one action.        *)
(***************************************************************************)
EXTENDS Integers, Sequences, FiniteSets, TLC

(* ----------------------------- bounds ---------------------------------- *)
MaxLoads == 2        \* compiles started in one behaviour
MaxFlight == 2       \* compiles started and not yet applied
MaxEntities == 1     \* entities guests spawn in one behaviour
MaxQueue == 2        \* length of the pending-message queue
MaxWrites == 3       \* tooling writes and despawns in one behaviour
StackLimit == 3       \* nested unload calls the host stack holds
ReloadLoads == 6      \* compiles started in one behaviour of SpecReload
CompileLoads == 3     \* compiles started in one behaviour of SpecCompile
HungLoads == 4        \* compiles started in one behaviour of SpecHung
HungWrites == 4       \* tooling writes in one behaviour of SpecHung, attaches included
CleanupLoads == 4     \* compiles started in one behaviour of SpecCleanup
CleanupEntities == 3  \* entities guests spawn in one behaviour of SpecCleanup

(* ------------------------- program constants ---------------------------- *)
MAXIMUM_ERROR_COUNT == 5

Ids == {1, 2}                       \* module entities, in query order
NoBytecode == -1                    \* no module_bytecode component
Bytecodes == {0, 1, 2}              \* 0: empty byte vector; 1, 2: programs

FrameEvent == "Frame"
ModuleLoadEvent == "ModuleLoad"
ModuleUnloadEvent == "ModuleUnload"
CollisionEvent == "Collision"
ColliderLoadsEvent == "ColliderLoads"
CustomEvent == "X"
ReservedEvent == "dims/x"
NearReservedEvent == "dims"

\* The characters of an event name (starts_with works on them).
Chars(name) ==
    CASE name = ReservedEvent -> <<"d", "i", "m", "s", "/", "x">>
      [] name = NearReservedEvent -> <<"d", "i", "m", "s">>
      [] name = CustomEvent -> <<"X">>
      [] OTHER -> <<"c", "o", "r", "e", "/">>

starts_with(name, prefix) ==
    /\ Len(prefix) <= Len(Chars(name))
    /\ SubSeq(Chars(name), 1, Len(prefix)) = prefix

VARIABLES
    mods,       \* Ids -> the module entity's components
    ents,       \* entities spawned by guests that are in the world
    persist,    \* entities carrying dont_despawn_on_unload
    nextEnt,    \* entities spawned so far
    pending,    \* message::pending_messages resource
    audience,   \* history: for each message of the queue and of the last
                \* step's drain, in the order sent, the modules that were
                \* subscribed to its name when it was sent
    threads,    \* compile threads that have not finished
    deferred,   \* async_run callbacks not yet applied
    nextLoad,   \* loads started so far
    writes,     \* tooling writes so far
    notes,      \* messenger calls of the last step
    calls,      \* guest invocations of the last step
    sends,      \* send calls guests made in the last step
    ops,        \* the last step's dispatches, reload and load calls, in order
    aborted,    \* the host process has died
    lim,        \* the budgets of this behaviour (never change)
    pc          \* the system of the tick that runs next

vars == <<mods, ents, persist, nextEnt, pending, audience, threads, deferred, nextLoad,
          writes, notes, calls, sends, ops, aborted, lim, pc>>

NoState == [load |-> 0, bc |-> 0, subs |-> {}, spawned |-> {}]

has_state(m) == m.state.load # 0

\* spawn_module: marker, enabled flag, empty error log; no bytecode.
\* replaced: the bytecode of the module was replaced while it was Running
\* and enabled, and no reload detection has run since.
spawn_module(enabled) ==
    [alive |-> TRUE, bytecode |-> NoBytecode, enabled |-> enabled,
     edits |-> <<>>, replaced |-> FALSE, errors |-> <<>>, state |-> NoState]

\* The change events of module_enabled the reload query has not read yet, as
\* pairs <<value of the flag, module has state>>: the pair before the first
\* event, then the pair at each event. Empty when the flag is unchanged.
changed(m) == m.edits # <<>>

touch(m, value) ==
    IF m.edits = <<>>
    THEN << <<m.enabled, has_state(m)>>, <<value, has_state(m)>> >>
    ELSE Append(m.edits, <<value, has_state(m)>>)

Host ==
    [mods |-> mods, ents |-> ents, persist |-> persist, nextEnt |-> nextEnt,
     pending |-> pending, audience |-> audience, threads |-> threads,
     deferred |-> deferred,
     nextLoad |-> nextLoad, notes |-> notes, calls |-> calls,
     sends |-> sends, ops |-> ops, aborted |-> aborted]

\* The host state at the start of a step: the observation logs start empty
\* and the history keeps the messages that are in the queue.
Fresh ==
    [Host EXCEPT !.notes = <<>>, !.calls = <<>>, !.sends = <<>>, !.ops = <<>>,
                 !.audience = SubSeq(@, Len(@) - Len(pending) + 1, Len(@))]

\* The variables hold the host state s.
Holds(s) ==
    /\ mods = s.mods
    /\ ents = s.ents
    /\ persist = s.persist
    /\ nextEnt = s.nextEnt
    /\ pending = s.pending
    /\ audience = s.audience
    /\ threads = s.threads
    /\ deferred = s.deferred
    /\ nextLoad = s.nextLoad
    /\ notes = s.notes
    /\ calls = s.calls
    /\ sends = s.sends
    /\ ops = s.ops
    /\ aborted = s.aborted

Commit(s) ==
    /\ mods' = s.mods
    /\ ents' = s.ents
    /\ persist' = s.persist
    /\ nextEnt' = s.nextEnt
    /\ pending' = s.pending
    /\ audience' = s.audience
    /\ threads' = s.threads
    /\ deferred' = s.deferred
    /\ nextLoad' = s.nextLoad
    /\ notes' = s.notes
    /\ calls' = s.calls
    /\ sends' = s.sends
    /\ ops' = s.ops
    /\ aborted' = s.aborted

(* --------------------------- guest behaviour ---------------------------- *)
\* What one guest call does: at most one host call (an effect), then a result.
NoEffect == [op |-> "none", name |-> "-", payload |-> "-", keep |-> FALSE]
Payloads == {"a", "b"}
SubscribeEffects ==
    {[op |-> "subscribe", name |-> n, payload |-> "-", keep |-> FALSE] :
        n \in {CustomEvent, ModuleUnloadEvent}}
SendEffects ==
    {[op |-> "send", name |-> CustomEvent, payload |-> p, keep |-> FALSE] :
        p \in Payloads}
    \cup {[op |-> "send", name |-> ReservedEvent, payload |-> "a", keep |-> FALSE]}
SpawnEffects ==
    {[op |-> "spawn", name |-> "-", payload |-> "-", keep |-> k] : k \in BOOLEAN}
Effects == {NoEffect} \cup SubscribeEffects \cup SendEffects \cup SpawnEffects

\* Results of a guest call or of the module-state factory, before
\* run_and_catch_panics: Ok, an anyhow error whose root cause is its message,
\* an anyhow error with a distinct root cause, a panic with a String payload,
\* a panic with a &str payload, a panic with another payload.
RawResults == {"ok", "err", "err_chain", "panic_string", "panic_str", "panic_any"}
Outcomes == {"ok", "err", "panic_str"}
Quiet == [out |-> "ok", eff |-> NoEffect]
Ok(effects) == {[out |-> "ok", eff |-> e] : e \in effects}
Failing(outcomes) == {[out |-> o, eff |-> NoEffect] : o \in outcomes \ {"ok"}}

\* The guests of one step: for each module the response of its instance to
\* the event the step dispatches (main) and to the module-unloading event,
\* drawn from the responses R and the outcomes U.
Guests(R, U, mainIds, unlIds) ==
    {[i \in Ids |-> [main |-> IF i \in mainIds THEN m[i] ELSE Quiet,
                     unl |-> IF i \in unlIds THEN u[i] ELSE "ok"]] :
        m \in [mainIds -> R \cup {Quiet}], u \in [unlIds -> U \cup {"ok"}]}

GuestResult(g, id, ev) ==
    IF ev = ModuleUnloadEvent THEN [out |-> g[id].unl, eff |-> NoEffect]
    ELSE g[id].main

(* ----------------------------- host helpers ----------------------------- *)
run_and_catch_panics(raw) ==
    CASE raw = "ok" -> [ok |-> TRUE, msg |-> ""]
      [] raw = "err" -> [ok |-> FALSE, msg |-> "E"]
      [] raw = "err_chain" -> [ok |-> FALSE, msg |-> "E\nRoot cause: R"]
      [] raw = "panic_string" -> [ok |-> FALSE, msg |-> "P"]
      [] raw = "panic_str" -> [ok |-> FALSE, msg |-> "P"]
      [] OTHER -> [ok |-> FALSE, msg |-> "unknown error"]

messenger(s, id, kind, text) ==
    [s EXCEPT !.notes = Append(@, <<id, kind, text>>)]

supports_event_Any(state, ev) == TRUE

supports_event(state, ev) == ev \in state.subs

listen_to_event(state, ev) == [state EXCEPT !.subs = @ \cup {ev}]

subscribe_Toggle(state, name) ==
    [state EXCEPT !.subs = IF name \in @ THEN @ \ {name} ELSE @ \cup {name}]

subscribe(state, name) == [state EXCEPT !.subs = @ \cup {name}]

send_Unfiltered(queue, name, data) == Append(queue, <<name, data>>)

send(queue, name, data) ==
    IF starts_with(name, <<"d", "i", "m", "s", "/">>) THEN queue
    ELSE Append(queue, <<name, data>>)

ExceedsLimit_OffByOne(n) == n >= MAXIMUM_ERROR_COUNT
ExceedsLimit(n) == n > MAXIMUM_ERROR_COUNT

push_Front(stream, err) == <<err>> \o stream

push(stream, err) == Append(stream, err)

Despawned_All(spawned, keep) == spawned

\* The entities unload despawns: those spawned and not dont_despawn_on_unload.
Despawned(spawned, keep) == {e \in spawned : e \notin keep}

\* world.add_component(module_id, module_state(), sms): sets the component,
\* replacing the one that is there.
add_state(s, id, sms) == [s EXCEPT !.mods[id].state = sms]

\* The host calls a guest makes while it runs (effects of one call).
Listeners(s, name) ==
    {i \in Ids : has_state(s.mods[i]) /\ name \in s.mods[i].state.subs}

ApplyEffect(s, id, eff) ==
    CASE eff.op = "subscribe" ->
            IF has_state(s.mods[id])
            THEN [s EXCEPT !.mods[id].state = subscribe(@, eff.name)]
            ELSE s
      [] eff.op = "send" ->
            LET queue == send(s.pending, eff.name, eff.payload)
            IN [s EXCEPT !.pending = queue,
                         !.sends = Append(@, <<id, eff.name, eff.payload>>),
                         !.audience = IF queue = s.pending THEN @
                                       ELSE Append(@, Listeners(s, eff.name))]
      [] eff.op = "spawn" ->
            LET e == s.nextEnt + 1
                s1 == [s EXCEPT !.nextEnt = e, !.ents = @ \cup {e},
                                !.persist = IF eff.keep THEN @ \cup {e} ELSE @]
            IN IF has_state(s.mods[id])
               THEN [s1 EXCEPT !.mods[id].state.spawned = @ \cup {e}]
               ELSE s1
      [] OTHER -> s

(* ------------------- run / update_errors / unload ----------------------- *)
RECURSIVE run(_, _, _, _, _, _)
RECURSIVE update_errors(_, _, _, _, _)
RECURSIVE unload(_, _, _, _, _)

\* message.run(world, Some(module_id)): the event goes to that module alone.
run_targeted(s, id, ev, g, d) ==
    IF s.aborted THEN s
    ELSE LET sent == [s EXCEPT !.ops = Append(@, <<ev, id>>)]
         IN IF ~has_state(sent.mods[id]) THEN sent
            ELSE run(sent, id, ev, "-", g, d)

run(s, id, ev, payload, g, d) ==
    IF s.aborted THEN s
    ELSE IF ~supports_event(s.mods[id].state, ev) THEN s
    ELSE LET called == [s EXCEPT !.calls = Append(@, <<id, ev, payload>>)]
             resp == GuestResult(g, id, ev)
             result == run_and_catch_panics(resp.out)
         IN IF result.ok THEN ApplyEffect(called, id, resp.eff)
            ELSE update_errors(called, id, result.msg, g, d)

update_errors(s, id, err, g, d) ==
    IF s.aborted THEN s
    ELSE LET told == messenger(s, id, "Error", err)
         IN IF ~told.mods[id].alive THEN told
            ELSE LET pushed == [told EXCEPT !.mods[id].errors = push(@, err)]
                 IN IF ExceedsLimit(Len(pushed.mods[id].errors))
                    THEN unload(pushed, id, "too many errors", g, d)
                    ELSE pushed

unload_Unguarded(s, id, reason, g, d) ==
    IF s.aborted THEN s
    ELSE IF d >= StackLimit THEN [s EXCEPT !.aborted = TRUE]
    ELSE LET told == run_targeted(s, id, ModuleUnloadEvent, g, d + 1)
             spawned_entities == told.mods[id].state.spawned
             cleared == [told EXCEPT !.mods[id].errors = <<>>]
             removed == [cleared EXCEPT !.mods[id].state = NoState]
             despawned == [removed EXCEPT
                              !.ents = @ \ Despawned(spawned_entities, removed.persist)]
         IN IF told.aborted THEN told
            ELSE messenger(despawned, id, "Info", reason)

unload(s, id, reason, g, d) ==
    IF s.aborted THEN s
    ELSE IF ~has_state(s.mods[id]) THEN s
    ELSE IF d >= StackLimit THEN [s EXCEPT !.aborted = TRUE]
    ELSE LET told == run_targeted(s, id, ModuleUnloadEvent, g, d + 1)
             spawned_entities == told.mods[id].state.spawned
             cleared == [told EXCEPT !.mods[id].errors = <<>>]
             removed == [cleared EXCEPT !.mods[id].state = NoState]
             despawned == [removed EXCEPT
                              !.ents = @ \ Despawned(spawned_entities, removed.persist)]
         IN IF told.aborted THEN told
            ELSE messenger(despawned, id, "Info", reason)


(* --------------------------- load / reload ------------------------------ *)
load_Synchronous(s, id, bytecode) ==
    [s EXCEPT !.mods[id].state = [load |-> s.nextLoad + 1, bc |-> bytecode,
                                  subs |-> {FrameEvent, ModuleLoadEvent},
                                  spawned |-> {}],
              !.threads = @ \cup {[id |-> id, load |-> s.nextLoad + 1, bc |-> bytecode]},
              !.nextLoad = @ + 1,
              !.ops = Append(@, <<"load", id>>)]

\* load: starts a compile thread on a copy of the bytecode and returns.
load(s, id, bytecode) ==
    [s EXCEPT !.threads = @ \cup {[id |-> id, load |-> s.nextLoad + 1, bc |-> bytecode]},
              !.nextLoad = @ + 1,
              !.ops = Append(@, <<"load", id>>)]

\* reload(world, module_id, bytecode): bytecode is NoBytecode for None.
reload(s, id, bytecode, g) ==
    LET unloaded == unload([s EXCEPT !.ops = Append(@, <<"reload", id>>)],
                           id, "reloading", g, 0)
    IN IF unloaded.aborted THEN unloaded
       ELSE IF bytecode # NoBytecode /\ bytecode # 0 THEN load(unloaded, id, bytecode)
       ELSE unloaded

\* enabled.then(|| bytecode.clone())
then_bytecode(m) == IF m.enabled THEN m.bytecode ELSE NoBytecode

RECURSIVE reload_each(_, _, _)
reload_each(s, ids, g) ==
    IF ids = <<>> THEN s
    ELSE reload_each(reload(s, Head(ids), then_bytecode(s.mods[Head(ids)]), g),
                     Tail(ids), g)

\* The ids of a set in query (ascending) order.
RECURSIVE InOrder(_)
InOrder(S) ==
    IF S = {} THEN <<>>
    ELSE LET m == CHOOSE x \in S : \A y \in S : x <= y
         IN <<m>> \o InOrder(S \ {m})

\* query((module_bytecode(), module_enabled().changed())) filtered by
\* enabled != has_state.
ChangedModules_Unfiltered(s) ==
    {i \in Ids : /\ s.mods[i].alive
                 /\ s.mods[i].bytecode # NoBytecode
                 /\ changed(s.mods[i])}

ChangedModules_Polled(s) ==
    {i \in Ids : /\ s.mods[i].alive
                 /\ s.mods[i].bytecode # NoBytecode
                 /\ s.mods[i].enabled # has_state(s.mods[i])}

ChangedModules(s) ==
    {i \in Ids : /\ s.mods[i].alive
                 /\ s.mods[i].bytecode # NoBytecode
                 /\ changed(s.mods[i])
                 /\ s.mods[i].enabled # has_state(s.mods[i])}

\* The change events the query has read are consumed.
ConsumeChanges(s) ==
    [s EXCEPT !.mods = [i \in Ids |-> [@[i] EXCEPT !.edits = <<>>,
                                                   !.replaced = FALSE]]]

module_reloads_system(s, g) ==
    LET modules == InOrder(ChangedModules(s))
        read == ConsumeChanges(s)
    IN reload_each(read, modules, g)

\* query((module(), module_bytecode(), module_enabled()))
reload_all(s, g) ==
    reload_each(s, InOrder({i \in Ids : s.mods[i].alive /\ s.mods[i].bytecode # NoBytecode}), g)

(* ------------------------------ dispatch -------------------------------- *)
RunningIds(s) == {i \in Ids : s.mods[i].alive /\ has_state(s.mods[i])}

RECURSIVE run_each(_, _, _, _, _)
run_each(s, ids, ev, payload, g) ==
    IF ids = <<>> THEN s
    ELSE run_each(run(s, Head(ids), ev, payload, g, 0), Tail(ids), ev, payload, g)

\* run_all: the module states are collected first, then each is run.
run_all(s, ev, payload, g) ==
    IF s.aborted THEN s
    ELSE run_each([s EXCEPT !.ops = Append(@, <<ev, 0>>)],
                  InOrder(RunningIds(s)), ev, payload, g)

\* message.run(world, None): the event goes to every module.
message_run(s, ev, payload, g) == run_all(s, ev, payload, g)

RECURSIVE run_n(_, _, _, _)
run_n(s, n, ev, g) ==
    IF n = 0 THEN s ELSE run_n(message_run(s, ev, "-", g), n - 1, ev, g)

frame_system(s, g) == message_run(s, FrameEvent, "-", g)

\* collisions: -1 when the resource is absent, else the number of pairs;
\* the number of pairs read is noted in ops when there are any.
Collisions == {-1, 0, 1, 2}

collision_system(s, collisions, g) ==
    IF collisions < 0 THEN s
    ELSE IF collisions = 0 THEN s
    ELSE run_n([s EXCEPT !.ops = Append(@, <<"pairs", collisions>>)],
               collisions, CollisionEvent, g)

\* collider_loads: -1 when the resource is absent, else the batch size;
\* the size of a non-empty batch is noted in ops.
ColliderLoadBatches == {-1, 0, 1, 2}

collider_loads_system(s, collider_loads, g) ==
    IF collider_loads < 0 THEN s
    ELSE IF collider_loads = 0 THEN s
    ELSE message_run([s EXCEPT !.ops = Append(@, <<"batch", collider_loads>>)],
                     ColliderLoadsEvent, "-", g)

RECURSIVE run_messages(_, _, _)
run_messages(s, messages, g) ==
    IF messages = <<>> THEN s
    ELSE run_messages(message_run(s, Head(messages)[1], Head(messages)[2], g),
                      Tail(messages), g)

pending_messages_system_Stale(s, g) ==
    LET ids == InOrder(RunningIds(s))
        run_stale(st, id, ev, payload) ==
            IF st.aborted \/ ~supports_event(s.mods[id].state, ev) THEN st
            ELSE LET called == [st EXCEPT !.calls = Append(@, <<id, ev, payload>>)]
                     resp == GuestResult(g, id, ev)
                     result == run_and_catch_panics(resp.out)
                 IN IF result.ok THEN ApplyEffect(called, id, resp.eff)
                    ELSE update_errors(called, id, result.msg, g, 0)
        RECURSIVE each(_, _, _, _)
        each(st, is, ev, payload) ==
            IF is = <<>> THEN st
            ELSE each(run_stale(st, Head(is), ev, payload), Tail(is), ev, payload)
        RECURSIVE all(_, _)
        all(st, ms) ==
            IF ms = <<>> THEN st
            ELSE all(each([st EXCEPT !.ops = Append(@, <<Head(ms)[1], 0>>)],
                          ids, Head(ms)[1], Head(ms)[2]),
                     Tail(ms))
    IN all([s EXCEPT !.pending = <<>>], s.pending)

pending_messages_system_Twice(s, g) ==
    LET first == run_messages([s EXCEPT !.pending = <<>>], s.pending, g)
    IN run_messages([first EXCEPT !.pending = <<>>], first.pending, g)

pending_messages_system(s, g) ==
    LET pending_messages == s.pending
        taken == [s EXCEPT !.pending = <<>>]
    IN run_messages(taken, pending_messages, g)

(* ------------------------- compile completion --------------------------- *)
Autosubscribe == {FrameEvent, ModuleLoadEvent}

\* The closure handed to async_run, applied on the simulation thread.
apply_completion(s, c, g) ==
    IF c.result.ok
    THEN IF ~s.mods[c.id].alive THEN [s EXCEPT !.aborted = TRUE]
         ELSE LET sms == [load |-> c.load, bc |-> c.bc, subs |-> Autosubscribe,
                          spawned |-> {}]
                  installed == add_state(s, c.id, sms)
              IN run_targeted(installed, c.id, ModuleLoadEvent, g, 0)
    ELSE update_errors(s, c.id, c.result.msg, g, 0)

\* world_events: the app events of this tick are run through run_all.
RECURSIVE app_events_system(_, _, _)
app_events_system(s, events, g) ==
    IF events = <<>> THEN s
    ELSE app_events_system(run_all(s, Head(events)[1], Head(events)[2], g),
                           Tail(events), g)

(* ------------------------------- actions -------------------------------- *)
Subscribed(ev) == {i \in RunningIds(Host) : ev \in mods[i].state.subs}
UnloadSubscribed == Subscribed(ModuleUnloadEvent)

Within(s) ==
    /\ s.nextLoad <= lim.loads
    /\ Cardinality(s.threads) + Len(s.deferred) <= MaxFlight
    /\ s.nextEnt <= lim.ents
    /\ Len(s.pending) <= MaxQueue

Step(s, next) ==
    /\ Within(s)
    /\ Commit(s)
    /\ pc' = next
    /\ UNCHANGED <<writes, lim>>

\* Tooling writes the enabled flag of a module.
SetEnabled(i, b) ==
    /\ pc = "idle" /\ ~aborted /\ mods[i].alive /\ writes < lim.writes
    /\ Commit([Fresh EXCEPT !.mods[i].enabled = b,
                            !.mods[i].edits = touch(mods[i], b)])
    /\ writes' = writes + 1
    /\ UNCHANGED <<pc, lim>>

\* Tooling attaches or replaces the bytecode of a module; attaching the
\* component moves the entity, which the changed() filter reports.
SetBytecode(i, bc) ==
    /\ pc = "idle" /\ ~aborted /\ mods[i].alive /\ writes < lim.writes
    /\ Commit([Fresh EXCEPT !.mods[i].bytecode = bc,
                            !.mods[i].edits =
                                IF mods[i].bytecode = NoBytecode
                                THEN touch(mods[i], mods[i].enabled) ELSE @,
                            !.mods[i].replaced =
                                \/ @
                                \/ /\ has_state(mods[i])
                                   /\ mods[i].enabled
                                   /\ mods[i].bytecode # bc])
    /\ writes' = writes + 1
    /\ UNCHANGED <<pc, lim>>

\* The host despawns a module entity: its components are dropped.
DespawnModule(i) ==
    /\ pc = "idle" /\ ~aborted /\ mods[i].alive /\ writes < lim.writes
    /\ Commit([Fresh EXCEPT !.mods[i].alive = FALSE, !.mods[i].state = NoState])
    /\ writes' = writes + 1
    /\ UNCHANGED <<pc, lim>>

\* An explicit reload request.
ReloadAll(U) ==
    /\ pc = "idle" /\ ~aborted
    /\ \E g \in Guests({}, U, {}, UnloadSubscribed) : Step(reload_all(Fresh, g), "idle")

\* A compile thread finishes and hands its closure to async_run.
WorkerFinish(t, raw) ==
    /\ ~aborted
    /\ t \in threads
    /\ threads' = threads \ {t}
    /\ deferred' = Append(deferred, [id |-> t.id, load |-> t.load, bc |-> t.bc,
                                     result |-> run_and_catch_panics(raw)])
    /\ UNCHANGED <<mods, ents, persist, nextEnt, pending, audience, nextLoad, writes,
                   notes, calls, sends, ops, aborted, lim, pc>>

\* The simulation thread applies the oldest async_run closure.
ApplyDeferred(R, U) ==
    /\ pc = "idle" /\ ~aborted /\ deferred # <<>>
    /\ LET c == Head(deferred)
           s == [Fresh EXCEPT !.deferred = Tail(deferred)]
       IN \E g \in Guests(R, U, IF c.result.ok THEN {c.id} ELSE {}, UnloadSubscribed) :
              Step(apply_completion(s, c, g), "idle")

ModuleReloads(U) ==
    /\ pc = "idle" /\ ~aborted
    /\ \E g \in Guests({}, U, {}, UnloadSubscribed) :
           Step(module_reloads_system(Fresh, g), "app_events")

AppEvents(R, U) ==
    /\ pc = "app_events" /\ ~aborted
    /\ \E events \in {<<>>, <<<<CustomEvent, "a">>>>} :
       \E g \in Guests(R, U, IF events = <<>> THEN {} ELSE Subscribed(CustomEvent),
                       UnloadSubscribed) :
           Step(app_events_system(Fresh, events, g), "frame")

Frame(R, U) ==
    /\ pc = "frame" /\ ~aborted
    /\ \E g \in Guests(R, U, Subscribed(FrameEvent), UnloadSubscribed) :
           Step(frame_system(Fresh, g), "collision")

Collision(R, U) ==
    /\ pc = "collision" /\ ~aborted
    /\ \E collisions \in Collisions :
       \E g \in Guests(R, U, IF collisions > 0 THEN Subscribed(CollisionEvent) ELSE {},
                       UnloadSubscribed) :
           Step(collision_system(Fresh, collisions, g), "collider_loads")

ColliderLoads(R, U) ==
    /\ pc = "collider_loads" /\ ~aborted
    /\ \E collider_loads \in ColliderLoadBatches :
       \E g \in Guests(R, U,
                       IF collider_loads > 0 THEN Subscribed(ColliderLoadsEvent) ELSE {},
                       UnloadSubscribed) :
           Step(collider_loads_system(Fresh, collider_loads, g), "pending")

PendingMessages(R, U) ==
    /\ pc = "pending" /\ ~aborted
    /\ \E g \in Guests(R, U,
                       IF pending = <<>> THEN {}
                       ELSE UNION {Subscribed(pending[k][1]) : k \in 1..Len(pending)},
                       UnloadSubscribed) :
           Step(pending_messages_system(Fresh, g), "idle")

\* One system of the tick, with guests that answer from R and U.
TickStep(R, U) ==
    \/ ModuleReloads(U)
    \/ AppEvents(R, U)
    \/ Frame(R, U)
    \/ Collision(R, U)
    \/ ColliderLoads(R, U)
    \/ PendingMessages(R, U)

(* --------------------- the lifecycle specification ---------------------- *)
\* Modules as spawn_module leaves them; tooling, compiles and ticks follow.
\* Guests spawn entities and do not fail; compiles succeed or fail.
LifeResponses == Ok(SpawnEffects)
LifeOutcomes == {"ok"}
CompileResults == {"ok", "err", "panic_str"}

Constructed(budget) ==
    /\ mods = [i \in Ids |-> spawn_module(TRUE)]
    /\ ents = {}
    /\ persist = {}
    /\ nextEnt = 0
    /\ pending = <<>>
    /\ audience = <<>>
    /\ threads = {}
    /\ deferred = <<>>
    /\ nextLoad = 0
    /\ writes = 0
    /\ notes = <<>>
    /\ calls = <<>>
    /\ sends = <<>>
    /\ ops = <<>>
    /\ aborted = FALSE
    /\ lim = budget
    /\ pc = "idle"

Tooling ==
    \/ \E i \in Ids, b \in BOOLEAN : SetEnabled(i, b)
    \/ \E i \in Ids, bc \in Bytecodes : SetBytecode(i, bc)
    \/ \E i \in Ids : DespawnModule(i)

Compiles(R, U) ==
    \/ \E t \in threads, raw \in CompileResults : WorkerFinish(t, raw)
    \/ ApplyDeferred(R, U)

Init == Constructed([loads |-> MaxLoads, writes |-> MaxWrites, ents |-> MaxEntities])

Next ==
    \/ Tooling
    \/ ReloadAll(LifeOutcomes)
    \/ Compiles(LifeResponses, LifeOutcomes)
    \/ TickStep(LifeResponses, LifeOutcomes)

Spec == Init /\ [][Next]_vars

(* ----------------------- the reload specification ----------------------- *)
\* The lifecycle with one tooling write and room for ReloadLoads loads: a
\* module whose compile keeps failing is reloaded again and again.
\* Guests fail or do nothing.
ReloadResponses == Failing({"err"})
ReloadOutcomes == {"ok"}

InitReload == Constructed([loads |-> ReloadLoads, writes |-> 1, ents |-> 0])

NextReload ==
    \/ Tooling
    \/ ReloadAll(ReloadOutcomes)
    \/ Compiles(ReloadResponses, ReloadOutcomes)
    \/ TickStep(ReloadResponses, ReloadOutcomes)

SpecReload == InitReload /\ [][NextReload]_vars

(* ----------------------- the fault specification ------------------------ *)
\* Both modules run: bytecode was attached, the tick started the loads, the
\* compiles succeeded and were applied. Then ticks follow, with guests that
\* fail, panic, or subscribe to the unloading event.
QuietGuests == [i \in Ids |-> [main |-> Quiet, unl |-> "ok"]]

ConstructedHost ==
    [mods |-> [i \in Ids |-> spawn_module(TRUE)], ents |-> {}, persist |-> {},
     nextEnt |-> 0, pending |-> <<>>, audience |-> <<>>, threads |-> {},
     deferred |-> <<>>,
     nextLoad |-> 0, notes |-> <<>>, calls |-> <<>>, sends |-> <<>>,
     ops |-> <<>>,
     aborted |-> FALSE]

RECURSIVE complete_each(_, _)
complete_each(s, ids) ==
    IF ids = <<>> THEN s
    ELSE LET t == CHOOSE t \in s.threads : t.id = Head(ids)
             c == [id |-> t.id, load |-> t.load, bc |-> t.bc,
                   result |-> run_and_catch_panics("ok")]
         IN complete_each(apply_completion([s EXCEPT !.threads = @ \ {t}], c, QuietGuests),
                          Tail(ids))

BootedHost ==
    LET attached == [ConstructedHost EXCEPT
                        !.mods = [i \in Ids |->
                                     [@[i] EXCEPT !.bytecode = 1,
                                                  !.edits = touch(spawn_module(TRUE),
                                                                  TRUE)]]]
        started == module_reloads_system(attached, QuietGuests)
        running == complete_each(started, InOrder(Ids))
    IN [running EXCEPT !.notes = <<>>, !.calls = <<>>, !.ops = <<>>]

Booted(budget) ==
    /\ Holds(BootedHost)
    /\ writes = Cardinality(Ids)
    /\ lim = budget
    /\ pc = "idle"

FaultResponses ==
    Ok({e \in SubscribeEffects : e.name = ModuleUnloadEvent})
    \cup Failing({"err", "panic_str"})
FaultOutcomes == {"ok", "err"}

InitFaults == Booted([loads |-> Cardinality(Ids), writes |-> Cardinality(Ids), ents |-> 0])

NextFaults == TickStep(FaultResponses, FaultOutcomes)

SpecFaults == InitFaults /\ [][NextFaults]_vars

(* ------------------------------ reading logs ---------------------------- *)
ErrorNotes(ns, i) ==
    Cardinality({k \in 1..Len(ns) : ns[k][1] = i /\ ns[k][2] = "Error"})

InfoNotes(ns, i, reason) ==
    Cardinality({k \in 1..Len(ns) : ns[k] = <<i, "Info", reason>>})

AllInfoNotes(ns, i) ==
    Cardinality({k \in 1..Len(ns) : ns[k][1] = i /\ ns[k][2] = "Info"})

CallsTo(cs, i, ev) ==
    Cardinality({k \in 1..Len(cs) : cs[k][1] = i /\ cs[k][2] = ev})

\* The modules subscribed at the send of the k-th message of the queue.
AudienceOf(k) == audience[Len(audience) - Len(pending) + k]

\* The send calls of a log that name no reserved event, as queue entries.
Reserved(name) == starts_with(name, <<"d", "i", "m", "s", "/">>)
Unreserved(entry) == ~Reserved(entry[2])
Queued(log) ==
    LET kept == SelectSeq(log, Unreserved)
    IN [k \in 1..Len(kept) |-> <<kept[k][2], kept[k][3]>>]

OpsOf(os, entry) ==
    Cardinality({k \in 1..Len(os) : os[k] = entry})

(* ---------------------- the messaging specification --------------------- *)
\* Both modules run; ticks follow, with guests that subscribe to the custom
\* event, send it, send a reserved name, or fail.
MsgResponses ==
    Ok({e \in SubscribeEffects : e.name = CustomEvent} \cup SendEffects)
    \cup Failing({"err"})
MsgOutcomes == {"ok"}

InitMsg == Booted([loads |-> Cardinality(Ids), writes |-> Cardinality(Ids), ents |-> 0])

NextMsg == TickStep(MsgResponses, MsgOutcomes)

SpecMsg == InitMsg /\ [][NextMsg]_vars

(* ----------------------- the compile specification ---------------------- *)
\* Module 1 has bytecode and reload_all ran twice: two compiles of it are in
\* flight. Tooling (one write), compile completions and ticks follow, with
\* guests that fail or subscribe to the unloading event.
RacingHost ==
    LET attached == [ConstructedHost EXCEPT
                        !.mods[1].bytecode = 1,
                        !.mods[1].edits = touch(spawn_module(TRUE), TRUE)]
        once == reload_all(attached, QuietGuests)
        twice == reload_all(once, QuietGuests)
    IN [twice EXCEPT !.notes = <<>>, !.calls = <<>>, !.ops = <<>>]

CompileResponses ==
    Ok({e \in SubscribeEffects : e.name = ModuleUnloadEvent}) \cup Failing({"err"})
CompileOutcomes == {"ok", "err"}

InitCompile ==
    /\ Holds(RacingHost)
    /\ writes = 1
    /\ lim = [loads |-> CompileLoads, writes |-> 2, ents |-> 0]
    /\ pc = "idle"

NextCompile ==
    \/ Tooling
    \/ Compiles(CompileResponses, CompileOutcomes)
    \/ TickStep(CompileResponses, CompileOutcomes)

SpecCompile == InitCompile /\ [][NextCompile]_vars

(* ------------------------ the names specification ---------------------- *)
\* Both modules run; ticks follow, with guests that subscribe to a reserved
\* name or send the custom event, a reserved name, or a name that is a
\* proper prefix of the reserved namespace.
NameResponses ==
    Ok({[op |-> "subscribe", name |-> ReservedEvent, payload |-> "-", keep |-> FALSE],
        [op |-> "subscribe", name |-> NearReservedEvent, payload |-> "-", keep |-> FALSE],
        [op |-> "send", name |-> NearReservedEvent, payload |-> "a", keep |-> FALSE]}
       \cup SendEffects)
NameOutcomes == {"ok"}

InitNames == Booted([loads |-> Cardinality(Ids), writes |-> Cardinality(Ids), ents |-> 0])

NextNames == TickStep(NameResponses, NameOutcomes)

SpecNames == InitNames /\ [][NextNames]_vars

(* ----------------------- the cleanup specification ---------------------- *)
\* Both modules run; ticks, explicit reloads and compiles follow, with guests
\* that spawn entities, with or without dont_despawn_on_unload, or fail.
CleanupResponses == Ok(SpawnEffects) \cup Failing({"err"})
CleanupOutcomes == {"ok"}

InitCleanup ==
    Booted([loads |-> CleanupLoads, writes |-> Cardinality(Ids),
            ents |-> CleanupEntities])

NextCleanup ==
    \/ ReloadAll(CleanupOutcomes)
    \/ Compiles(CleanupResponses, CleanupOutcomes)
    \/ TickStep(CleanupResponses, CleanupOutcomes)

SpecCleanup == InitCleanup /\ [][NextCleanup]_vars

(* ------------------------ the order specification ---------------------- *)
\* Both modules run; ticks follow, with guests that subscribe to the
\* collision event or the unloading event, send the custom event, or fail.
OrderResponses ==
    Ok({[op |-> "subscribe", name |-> CollisionEvent, payload |-> "-", keep |-> FALSE],
        [op |-> "subscribe", name |-> ModuleUnloadEvent, payload |-> "-", keep |-> FALSE],
        [op |-> "send", name |-> CustomEvent, payload |-> "a", keep |-> FALSE]})
    \cup Failing({"err"})
OrderOutcomes == {"ok", "err"}

InitOrder == Booted([loads |-> Cardinality(Ids), writes |-> Cardinality(Ids), ents |-> 0])

NextOrder == TickStep(OrderResponses, OrderOutcomes)

SpecOrder == InitOrder /\ [][NextOrder]_vars

(* ------------------------ the drain specification ---------------------- *)
\* Both modules run; ticks follow, with guests that subscribe to the custom
\* event or the unloading event, send the custom event with either payload,
\* or fail.
DrainResponses ==
    Ok({[op |-> "subscribe", name |-> CustomEvent, payload |-> "-", keep |-> FALSE],
        [op |-> "subscribe", name |-> ModuleUnloadEvent, payload |-> "-", keep |-> FALSE]}
       \cup {[op |-> "send", name |-> CustomEvent, payload |-> p, keep |-> FALSE] : p \in Payloads})
    \cup Failing({"err"})
DrainOutcomes == {"ok", "err"}

InitDrain == Booted([loads |-> Cardinality(Ids), writes |-> Cardinality(Ids), ents |-> 0])

NextDrain == TickStep(DrainResponses, DrainOutcomes)

SpecDrain == InitDrain /\ [][NextDrain]_vars

(* ------------------------ the hung-compile specification ---------------- *)
\* Both modules have bytecode attached and the first tick starts a compile
\* of each. The compile of module Hung never completes: its worker never
\* hands a closure to async_run. Tooling toggles the flag of the other
\* module, whose compiles complete; its guest fails or does nothing. The
\* tick loop runs, async_run closures are applied between ticks, and the
\* workers of the other module finish.
Hung == 1
HungResponses == Failing({"err"})
HungOutcomes == {"ok"}

AttachedHost ==
    [ConstructedHost EXCEPT
        !.mods = [i \in Ids |->
                     [@[i] EXCEPT !.bytecode = 1,
                                  !.edits = touch(spawn_module(TRUE), TRUE)]]]

InitHung ==
    /\ Holds(AttachedHost)
    /\ writes = Cardinality(Ids)
    /\ lim = [loads |-> HungLoads, writes |-> HungWrites, ents |-> 0]
    /\ pc = "idle"

OtherWorkerFinish ==
    \E t \in threads, raw \in {"ok", "err"} : t.id # Hung /\ WorkerFinish(t, raw)

NextHung ==
    \/ \E i \in Ids \ {Hung}, b \in BOOLEAN : SetEnabled(i, b)
    \/ OtherWorkerFinish
    \/ ApplyDeferred(HungResponses, HungOutcomes)
    \/ TickStep(HungResponses, HungOutcomes)

SpecHung ==
    /\ InitHung
    /\ [][NextHung]_vars
    /\ WF_vars(TickStep(HungResponses, HungOutcomes))
    /\ SF_vars(ApplyDeferred(HungResponses, HungOutcomes))
    /\ WF_vars(OtherWorkerFinish)

(* -------------------------------- claims -------------------------------- *)
\* C1 as stated: a Running module is still Running after each of its first
\* five failing dispatches. The step that installs an instance dispatches the
\* module-loaded event to it: if that dispatch is the only failure of the
\* step, it is the first failure of the instance, which is still Running
\* afterwards and is not unloaded for too many errors.
C1_RunningThroughFiveFailures ==
    [][\A i \in Ids :
          (/\ pc = "idle" /\ pc' = "idle"
           /\ deferred # <<>> /\ deferred' = Tail(deferred)
           /\ Head(deferred).id = i /\ Head(deferred).result.ok
           /\ mods[i].alive /\ ~has_state(mods[i])
           /\ ErrorNotes(notes', i) <= 1)
          => /\ has_state(mods'[i])
             /\ InfoNotes(notes', i, "too many errors") = 0]_vars

\* The threshold itself: a Running module whose log holds k errors and that fails n more
\* dispatches in a step is still Running with k + n errors while k + n <= 5,
\* and at k + n = 6 (the sixth failure since it was installed) it is
\* Unloaded, with one Info note "too many errors" and an empty error log.
ThresholdUnload ==
    [][\A i \in Ids :
          LET k == Len(mods[i].errors)
              n == ErrorNotes(notes', i)
          IN (has_state(mods[i]) /\ n > 0) =>
                /\ (k + n <= 5) =>
                      /\ has_state(mods'[i])
                      /\ Len(mods'[i].errors) = k + n
                      /\ AllInfoNotes(notes', i) = 0
                /\ (k + n = 6) =>
                      /\ ~has_state(mods'[i])
                      /\ mods'[i].errors = <<>>
                      /\ InfoNotes(notes', i, "too many errors") = 1
                      /\ AllInfoNotes(notes', i) = 1]_vars

ThresholdUnload_Reached ==
    \E i \in Ids :
        /\ ~has_state(mods[i])
        /\ mods[i].errors = <<>>
        /\ ErrorNotes(notes, i) = 1
        /\ InfoNotes(notes, i, "too many errors") = 1
        /\ ~aborted

\* C2: the error log of every module, Running or not, holds at most 5
\* errors in every state between operations.
C2_BoundedErrorLog ==
    \A i \in Ids : Len(mods[i].errors) <= 5

\* C3: once the reload query has read the flag's changes, a module has a
\* running_state only if its enabled flag is true.
C3_RunningOnlyIfEnabled ==
    \A i \in Ids :
        (has_state(mods[i]) /\ ~changed(mods[i])) => mods[i].enabled

\* C4: a step that calls reload on a module leaves that module's error log
\* empty, whether the module was Running or not.
C4_ReloadClearsLog ==
    \A i \in Ids :
        <<"reload", i>> \in {ops[k] : k \in 1..Len(ops)} => mods[i].errors = <<>>

C6_NoStaleOverwrite ==
    [][\A i \in Ids :
          (has_state(mods[i]) /\ has_state(mods'[i]))
          => mods'[i].state.load >= mods[i].state.load]_vars

C8_TickCompletes == ~aborted

\* C9: a step that unloads a Running module leaves every entity its
\* instance had spawned absent from the world, unless the entity carries
\* dont_despawn_on_unload, in which case it is still present.
C9_UnloadCleanup ==
    [][\A i \in Ids :
          (has_state(mods[i]) /\ OpsOf(ops', <<ModuleUnloadEvent, i>>) > 0 /\ ~aborted')
          => /\ \A e \in mods[i].state.spawned : e \in ents' <=> e \in persist
             /\ mods[i].state.spawned \cap mods'[i].state.spawned = {}]_vars

\* One reload has unloaded both modules, whose instances had spawned three
\* entities: those with the marker are all that is left.
C9_Witness ==
    /\ \A i \in Ids : OpsOf(ops, <<ModuleUnloadEvent, i>>) = 1
    /\ nextLoad = 2 * Cardinality(Ids)
    /\ nextEnt = 3
    /\ ents = persist
    /\ Cardinality(persist) \in {1, 2}

\* C10: when the guest of module i panics in the frame dispatch, exactly one
\* Error note is emitted for i, the host is not aborted, and every other
\* module that was Running and subscribed is invoked once for that event.
C10_PanicContained ==
    [][\A i \in Ids : \A j \in Ids \ {i} :
          (/\ <<FrameEvent, 0>> \in {ops'[k] : k \in 1..Len(ops')}
           /\ <<i, "Error", "P">> \in {notes'[k] : k \in 1..Len(notes')}
           /\ has_state(mods[j])
           /\ FrameEvent \in mods[j].state.subs)
          => /\ ~aborted'
             /\ ErrorNotes(notes', i) = 1
             /\ CallsTo(calls', j, FrameEvent) = 1]_vars

\* C11: in every step of the tick, the messages the step adds to the
\* pending queue are exactly its send calls with a name outside "dims/", in
\* order: a send with a reserved name leaves the queue as it was; and no
\* guest is ever invoked with a reserved name, whatever it subscribed to.
C11_NamespaceFiltering ==
    [][(pc' # pc) =>
          /\ pending' = (IF pc = "pending" THEN <<>> ELSE pending) \o Queued(sends')
          /\ \A k \in 1..Len(pending') : ~Reserved(pending'[k][1])
          /\ \A k \in 1..Len(calls') : ~Reserved(calls'[k][2])]_vars

\* A drain has run after a guest sent a reserved name during it, with a
\* module subscribed to that exact name: nothing was queued and no guest
\* was invoked.
C11_Witness ==
    /\ pc = "idle"
    /\ \E k \in 1..Len(sends) : sends[k][2] = ReservedEvent
    /\ \E i \in Ids : has_state(mods[i]) /\ ReservedEvent \in mods[i].state.subs
    /\ pending = <<>>
    /\ \A k \in 1..Len(calls) : calls[k][2] # ReservedEvent

\* C12: a step in which a compile thread finishes changes no module
\* component, no entity and no notification; and a step that calls load for
\* a module leaves it without running_state, with the error log the unload
\* before the load left (empty if the module was Running, untouched if not).
C12_OffThreadCompile ==
    [][\A i \in Ids :
          /\ (Len(deferred') > Len(deferred)) =>
                /\ mods' = mods
                /\ ents' = ents /\ persist' = persist
                /\ notes' = notes /\ calls' = calls
          /\ (ops' # ops /\ OpsOf(ops', <<"load", i>>) > 0) =>
                /\ ~has_state(mods'[i])
                /\ mods'[i].errors =
                      (IF has_state(mods[i]) THEN <<>> ELSE mods[i].errors)]_vars

\* A compile has finished with a ModuleState while a tick is under way, and
\* its module has no running_state yet.
C12_Witness ==
    /\ deferred # <<>>
    /\ pc # "idle"
    /\ Head(deferred).result.ok
    /\ ~has_state(mods[Head(deferred).id])
    /\ mods[Head(deferred).id].errors # <<>>

\* The step that applies the oldest completion, a ModuleState for module i.
AppliesSuccess(i) ==
    /\ pc = "idle" /\ pc' = "idle"
    /\ deferred # <<>> /\ deferred' = Tail(deferred)
    /\ Head(deferred).id = i /\ Head(deferred).result.ok

\* C13: the step that applies a successful completion for module i installs
\* the instance of that load, subscribed to the frame and module-loaded
\* events, dispatches exactly one module-loaded event, addressed to i, and
\* invokes the guest of i with it and no other guest; the host survives.
C13_LoadSuccessStep ==
    [][\A i \in Ids :
          AppliesSuccess(i) =>
             /\ ~aborted'
             /\ ops' = <<<<ModuleLoadEvent, i>>>>
             /\ calls' = <<<<i, ModuleLoadEvent, "-">>>>
             /\ has_state(mods'[i])
             /\ mods'[i].state.load = Head(deferred).load
             /\ Autosubscribe \subseteq mods'[i].state.subs]_vars

\* The step that applies the oldest completion, a compile error of module i.
AppliesFailure(i) ==
    /\ pc = "idle" /\ pc' = "idle"
    /\ deferred # <<>> /\ deferred' = Tail(deferred)
    /\ Head(deferred).id = i /\ ~Head(deferred).result.ok

\* C14 as stated: the step that applies a failed compile of module i, whose
\* entity exists, installs no running_state, emits exactly one Error
\* notification for i and leaves the log of i as the old log with the error
\* text appended as its last element.
C14_LoadFailureStep ==
    [][\A i \in Ids :
          (AppliesFailure(i) /\ mods[i].alive) =>
             /\ mods'[i].state \in {mods[i].state, NoState}
             /\ notes' = <<<<i, "Error", Head(deferred).result.msg>>>>
             /\ mods'[i].errors = Append(mods[i].errors, Head(deferred).result.msg)]_vars

\* C14 amended: the step installs no running_state and its first
\* notification is the one Error notification of the compile error. If the
\* module entity is gone nothing else happens. Otherwise the error text is
\* appended to the log; if the module is Running (from an earlier load) and
\* the log then exceeds five entries, the unload for "too many errors" is
\* started, as for a failing dispatch: the unloading event is dispatched to
\* the module; else the log is the old log with the error text as its last
\* element and nothing else changes.
C14_LoadFailureRouted ==
    [][\A i \in Ids :
          AppliesFailure(i) =>
             LET msg == Head(deferred).result.msg
             IN /\ mods'[i].state \in {mods[i].state, NoState}
                /\ notes' # <<>> /\ notes'[1] = <<i, "Error", msg>>
                /\ ~mods[i].alive =>
                      /\ mods' = mods
                      /\ Len(notes') = 1
                /\ (mods[i].alive /\ has_state(mods[i]) /\ Len(mods[i].errors) >= 5) =>
                      OpsOf(ops', <<ModuleUnloadEvent, i>>) >= 1
                /\ (mods[i].alive /\ ~(has_state(mods[i]) /\ Len(mods[i].errors) >= 5)) =>
                      /\ mods'[i].errors = Append(mods[i].errors, msg)
                      /\ mods'[i].state = mods[i].state
                      /\ Len(notes') = 1]_vars

\* A failed compile has just been applied to a module that keeps running on
\* an earlier load: its log ends with the compile error after the errors of
\* its failing dispatches.
C14_Witness ==
    \E i \in Ids :
        /\ pc = "idle"
        /\ notes = <<<<i, "Error", "P">>>>
        /\ calls = <<>>
        /\ has_state(mods[i])
        /\ Len(mods[i].errors) >= 2
        /\ mods[i].errors[Len(mods[i].errors)] = "P"
        /\ mods[i].errors[1] = "E"

\* The last notification of a log that is about module i.
LastNoteOf(ns, i) ==
    LET at == {k \in 1..Len(ns) : ns[k][1] = i}
    IN ns[CHOOSE k \in at : \A j \in at : j <= k]

\* C15: a step that unloads a Running module dispatches exactly one
\* module-unloading event to it, which its guest receives if subscribed,
\* and leaves the module without running_state, with an empty error log,
\* with its non-persistent spawned entities despawned, and with exactly one
\* Info notification, the last notification about the module; also when the
\* guest fails while handling the unloading event.
C15_UnloadSequence ==
    [][\A i \in Ids :
          (has_state(mods[i]) /\ OpsOf(ops', <<ModuleUnloadEvent, i>>) > 0) =>
             /\ ~aborted'
             /\ OpsOf(ops', <<ModuleUnloadEvent, i>>) = 1
             /\ CallsTo(calls', i, ModuleUnloadEvent) =
                   (IF ModuleUnloadEvent \in mods[i].state.subs THEN 1 ELSE 0)
             /\ ~has_state(mods'[i])
             /\ mods'[i].errors = <<>>
             /\ \A e \in mods[i].state.spawned : e \in ents' <=> e \in persist
             /\ AllInfoNotes(notes', i) = 1
             /\ LastNoteOf(notes', i)[2] = "Info"]_vars

\* C16: unload of a module that is not Running is a no-op. In a step that
\* reloads module i while it has no running_state, the unload that reload
\* starts with dispatches no module-unloading event, emits no notification
\* about i, and leaves the error log, the enabled flag and the bytecode of i
\* as they were; the only entities the step despawns are the non-persistent
\* entities of the modules that were Running when they were reloaded.
Reloaded(os) == {j \in Ids : OpsOf(os, <<"reload", j>>) > 0}

C16_UnloadNotRunning ==
    [][\A i \in Ids :
          (/\ Len(deferred') <= Len(deferred)    \* a step of the simulation thread
           /\ i \in Reloaded(ops')
           /\ ~has_state(mods[i])) =>
             /\ OpsOf(ops', <<ModuleUnloadEvent, i>>) = 0
             /\ CallsTo(calls', i, ModuleUnloadEvent) = 0
             /\ \A k \in 1..Len(notes') : notes'[k][1] # i
             /\ mods'[i].errors = mods[i].errors
             /\ mods'[i].enabled = mods[i].enabled
             /\ mods'[i].bytecode = mods[i].bytecode
             /\ ~has_state(mods'[i])
             /\ ents' = ents \ UNION {Despawned(mods[j].state.spawned, persist) :
                                         j \in Reloaded(ops') \cap RunningIds(Host)}]_vars

\* A reload has just gone over a module that was not Running, with a
\* non-empty error log, while entities exist.
C16_Witness ==
    \E i \in Ids :
        /\ pc = "idle"
        /\ i \in Reloaded(ops)
        /\ OpsOf(ops, <<ModuleUnloadEvent, i>>) = 0
        /\ mods[i].errors # <<>>
        /\ ents # {}

\* C17: event delivery. In a step that dispatches one system event to all
\* modules, the guest of a module is invoked for that event exactly once if
\* the module is Running and subscribed to the event name, and not at all
\* otherwise, whatever happens to the modules earlier in the iteration.
Dispatches(os) == {k \in 1..Len(os) : os[k][2] = 0}

C17_EventDelivery ==
    [][\A i \in Ids :
          (/\ Len(deferred') <= Len(deferred)
           /\ Cardinality(Dispatches(ops')) = 1) =>
             LET ev == ops'[CHOOSE k \in Dispatches(ops') : TRUE][1]
             IN CallsTo(calls', i, ev) = (IF i \in Subscribed(ev) THEN 1 ELSE 0)]_vars

\* C18: per-tick order. The systems of a tick run in the order reload
\* detection, app events, frame, collisions, collider loads, drain, and the
\* next tick starts after the drain. The frame event is dispatched exactly
\* once, in the frame step; the collision event once per colliding pair, in
\* the collision step, and not at all without pairs; the collider-loads
\* event once for a non-empty batch, in the collider-loads step; queued
\* messages leave the queue in the drain step alone.
TickOrder ==
    {<<"idle", "app_events">>, <<"app_events", "frame">>, <<"frame", "collision">>,
     <<"collision", "collider_loads">>, <<"collider_loads", "pending">>,
     <<"pending", "idle">>}

Noted(os, what) ==
    LET at == {k \in 1..Len(os) : os[k][1] = what}
    IN IF at = {} THEN 0 ELSE os[CHOOSE k \in at : TRUE][2]

C18_TickOrder ==
    [][(pc' # pc) =>
          /\ <<pc, pc'>> \in TickOrder
          /\ (pc = "idle") => Dispatches(ops') = {}
          /\ OpsOf(ops', <<FrameEvent, 0>>) = (IF pc = "frame" THEN 1 ELSE 0)
          /\ OpsOf(ops', <<CollisionEvent, 0>>) =
                (IF pc = "collision" THEN Noted(ops', "pairs") ELSE 0)
          /\ OpsOf(ops', <<ColliderLoadsEvent, 0>>) =
                (IF pc = "collider_loads" /\ Noted(ops', "batch") > 0 THEN 1 ELSE 0)
          /\ (pc # "pending") =>
                /\ Len(pending') >= Len(pending)
                /\ SubSeq(pending', 1, Len(pending)) = pending]_vars

\* C19: non-reentrant messaging. A send with a non-reserved name appends
\* the event to the pending queue and does nothing else: in every step the
\* queue afterwards is the queue before (emptied, in the drain step)
\* followed by the events sent in the step. Queued events are dispatched in
\* the drain step alone, and the drain dispatches events of the queue it
\* took, in order: an event sent while the drain runs is not dispatched in
\* that drain and heads the queue of the next one. The custom event reaches
\* a guest from the queue, or as the app event of the app-events step.
IsDispatch(entry) == entry[2] = 0

C19_NonReentrantSend ==
    [][(pc' # pc) =>
          LET delivered == SelectSeq(ops', IsDispatch)
          IN /\ pending' = (IF pc = "pending" THEN <<>> ELSE pending) \o Queued(sends')
             /\ (pc = "pending") =>
                   /\ Len(delivered) <= Len(pending)
                   /\ \A k \in 1..Len(delivered) : delivered[k][1] = pending[k][1]
             /\ (pc = "app_events") => Len(delivered) <= 1
             /\ (pc \notin {"pending", "app_events"}) =>
                   \A k \in 1..Len(delivered) : delivered[k][1] # CustomEvent
             /\ \A k \in 1..Len(calls') :
                   (calls'[k][2] = CustomEvent) =>
                      \/ /\ pc = "pending"
                         /\ \E j \in 1..Len(pending) :
                                pending[j] = <<CustomEvent, calls'[k][3]>>
                      \/ /\ pc = "app_events"
                         /\ calls'[k][3] = "a"]_vars

\* A drain has just delivered a queued event to a guest, which sent an
\* event while handling it: the event sent is queued, not delivered.
C19_Witness ==
    /\ pc = "idle"
    /\ \E k \in 1..Len(calls) : calls[k][2] = CustomEvent
    /\ \E k \in 1..Len(sends) : sends[k][2] = CustomEvent
    /\ pending # <<>>
    /\ pending = Queued(sends)
    /\ Len(SelectSeq(ops, IsDispatch)) = 1

\* C20: bytecode-change detection. When the bytecode of a Running, enabled
\* module was replaced by a non-empty one since the last detection step and
\* the enabled flag was not written, the detection step of the next tick
\* reloads the module: it starts a compile of the current bytecode.
C20_BytecodeChangeDetected ==
    [][\A i \in Ids :
          (/\ pc = "idle" /\ pc' = "app_events"
           /\ mods[i].replaced
           /\ mods[i].alive
           /\ has_state(mods[i])
           /\ mods[i].enabled
           /\ ~changed(mods[i])
           /\ mods[i].bytecode # 0) =>
             /\ i \in Reloaded(ops')
             /\ \E t \in threads' \ threads : t.id = i /\ t.bc = mods[i].bytecode]_vars

\* C21: reload. A step of the simulation thread that reloads module i leaves
\* it without running_state and starts exactly one compile for it, of the
\* bytecode the module holds, if its enabled flag is set and its bytecode is
\* present and non-empty; otherwise it starts no compile for it.
StartedFor(i) == {t \in threads' \ threads : t.id = i}

C21_Reload ==
    [][\A i \in Ids :
          (/\ Len(deferred') <= Len(deferred)
           /\ i \in Reloaded(ops')) =>
             /\ ~has_state(mods'[i])
             /\ IF mods[i].enabled /\ mods[i].bytecode \notin {NoBytecode, 0}
                THEN /\ Cardinality(StartedFor(i)) = 1
                     /\ \A t \in StartedFor(i) : t.bc = mods[i].bytecode
                ELSE StartedFor(i) = {}]_vars

\* C22: subscribe is idempotent. After every step and for every module and
\* event name, subscribing the instance to a name it is subscribed to
\* leaves it as it is, and subscribing twice gives what subscribing once
\* gives; the pending queue of a step in which guests subscribe changes by
\* the drain and by the events sent alone.
EventNames ==
    {FrameEvent, ModuleLoadEvent, ModuleUnloadEvent, CollisionEvent,
     ColliderLoadsEvent, CustomEvent, ReservedEvent, NearReservedEvent}

C22_SubscribeIdempotent ==
    [][(pc' # pc) =>
          /\ \A i \in Ids, n \in EventNames :
                LET state == mods'[i].state
                IN /\ (n \in state.subs) => subscribe(state, n) = state
                   /\ subscribe(subscribe(state, n), n) = subscribe(state, n)
                   /\ n \in subscribe(state, n).subs
          /\ pending' = (IF pc = "pending" THEN <<>> ELSE pending) \o Queued(sends')]_vars

\* A guest subscribed to two names has just been invoked for one of them
\* in the drain.
C22_Witness ==
    \E i \in Ids :
        /\ pc = "idle"
        /\ {ReservedEvent, NearReservedEvent} \subseteq mods[i].state.subs
        /\ CallsTo(calls, i, NearReservedEvent) > 0

\* C23: non-fatal error self-loop. In a dispatch step of the tick, or in the
\* step that installs the instance and dispatches the module-loaded event,
\* a module that is Running for the dispatch and whose log, with the
\* failures of the step, holds at most five entries keeps the same
\* instance: no unloading event is dispatched to it, the entities it
\* spawned stay, and its log is the old log followed by the error texts of
\* the step, the newest last.
ErrorTexts(ns, i) ==
    LET at == {k \in 1..Len(ns) : ns[k][1] = i /\ ns[k][2] = "Error"}
        idx == InOrder(at)
    IN [k \in 1..Len(idx) |-> ns[idx[k]][3]]

FailsUnderThreshold(i) ==
    /\ Len(deferred') <= Len(deferred)
    /\ mods[i].alive
    /\ \/ pc # "idle" /\ pc' # pc /\ has_state(mods[i])
       \/ AppliesSuccess(i) /\ ~has_state(mods[i])
    /\ ErrorNotes(notes', i) > 0
    /\ Len(mods[i].errors) + ErrorNotes(notes', i) <= MAXIMUM_ERROR_COUNT

C23_NonFatalSelfLoop ==
    [][\A i \in Ids :
          FailsUnderThreshold(i) =>
             /\ has_state(mods'[i])
             /\ mods'[i].state.load =
                   (IF has_state(mods[i]) THEN mods[i].state.load
                    ELSE Head(deferred).load)
             /\ OpsOf(ops', <<ModuleUnloadEvent, i>>) = 0
             /\ AllInfoNotes(notes', i) = 0
             /\ mods[i].state.spawned \subseteq mods'[i].state.spawned
             /\ (mods[i].state.spawned \cap ents) \subseteq ents'
             /\ mods'[i].errors = mods[i].errors \o ErrorTexts(notes', i)]_vars

\* The frame dispatch to a module that holds spawned entities has just
\* failed for the fifth time.
C23_Witness ==
    \E i \in Ids :
        /\ pc = "collision"
        /\ ErrorNotes(notes, i) = 1
        /\ has_state(mods[i])
        /\ Len(mods[i].errors) = MAXIMUM_ERROR_COUNT
        /\ (mods[i].state.spawned \cap ents) \ persist # {}

\* C24: module-scoped faults. In a step of the simulation thread in which
\* module a has an error (a failed compile or a failed dispatch, with or
\* without the forced unload that follows), the host goes on and every other
\* module b that has no error of its own in the step and is neither
\* reloaded nor installed by it keeps its error log and its instance, loses
\* no subscription and has none of its spawned entities despawned.
FaultOf(a) ==
    /\ Len(deferred') <= Len(deferred)
    /\ (notes' # notes \/ ops' # ops \/ pc' # pc \/ deferred' # deferred)
    /\ ErrorNotes(notes', a) > 0

Bystander(b) ==
    /\ mods[b].alive
    /\ ErrorNotes(notes', b) = 0
    /\ b \notin Reloaded(ops')
    /\ ~(deferred # <<>> /\ deferred' = Tail(deferred) /\ pc = "idle" /\ pc' = "idle"
          /\ Head(deferred).id = b)

C24_ModuleScopedFaults ==
    [][\A a \in Ids, b \in Ids :
          (a # b /\ FaultOf(a) /\ Bystander(b)) =>
             /\ ~aborted'
             /\ mods'[b].errors = mods[b].errors
             /\ mods'[b].state.load = mods[b].state.load
             /\ mods[b].state.subs \subseteq mods'[b].state.subs
             /\ mods[b].state.spawned \subseteq mods'[b].state.spawned
             /\ (mods[b].state.spawned \cap ents) \subseteq ents']_vars

\* C25: hung compile isolation. While the compile of module Hung never
\* completes, that module never has a running_state; ticks keep starting
\* and keep completing; again and again no compile of another module is in
\* flight (each is applied); a Running module is invoked for every frame
\* event, and a Running module whose flag was cleared is unloaded by the
\* detection step.
InFlight(i) ==
    \/ \E t \in threads : t.id = i
    \/ \E k \in 1..Len(deferred) : deferred[k].id = i

C25_HungCompileIsolated ==
    /\ [](~has_state(mods[Hung]))
    /\ [](nextLoad > 0 => \E t \in threads : t.id = Hung)
    /\ []<>(pc = "app_events")
    /\ []<>(pc = "idle")
    /\ []<>(\A i \in Ids \ {Hung} : ~InFlight(i))
    /\ [][\A i \in Ids \ {Hung} :
            /\ (pc = "frame" /\ pc' = "collision" /\ has_state(mods[i])) =>
                  CallsTo(calls', i, FrameEvent) = 1
            /\ (/\ pc = "idle" /\ pc' = "app_events"
                /\ has_state(mods[i]) /\ ~mods[i].enabled /\ changed(mods[i])) =>
                  /\ ~has_state(mods'[i])
                  /\ InfoNotes(notes', i, "reloading") = 1]_vars

\* The compile of module Hung is still in flight while another module,
\* unloaded and loaded again since, has just been invoked for a frame event.
C25_Witness ==
    \E i \in Ids \ {Hung} :
        /\ \E t \in threads : t.id = Hung
        /\ has_state(mods[i])
        /\ mods[i].state.load > Cardinality(Ids)
        /\ pc = "collision"
        /\ CallsTo(calls, i, FrameEvent) = 1

C27_TeardownBeforeDrop ==
    [][\A i \in Ids :
          (/\ has_state(mods[i])
           /\ mods'[i].alive
           /\ mods'[i].state.load # mods[i].state.load) =>
             /\ OpsOf(ops', <<ModuleUnloadEvent, i>>) >= 1
             /\ \A e \in mods[i].state.spawned \ persist : e \notin ents']_vars

OtherCalls(cs, i) ==
    Cardinality({k \in 1..Len(cs) : cs[k][1] = i /\ cs[k][2] # ModuleUnloadEvent})

CallsToThreshold(m) ==
    IF Len(m.errors) >= MAXIMUM_ERROR_COUNT THEN 1
    ELSE MAXIMUM_ERROR_COUNT + 1 - Len(m.errors)

C29_NoDeliveryAfterUnload ==
    [][\A i \in Ids :
          (pc' # pc) =>
             /\ ~has_state(mods[i]) => \A k \in 1..Len(calls') : calls'[k][1] # i
             /\ (has_state(mods[i]) /\ ~has_state(mods'[i])) =>
                   /\ CallsTo(calls', i, ModuleUnloadEvent) <= 1
                   /\ OtherCalls(calls', i) =
                         (IF i \in Reloaded(ops') THEN 0 ELSE CallsToThreshold(mods[i]))]_vars

\* A drain of two queued events has just unloaded a module for too many
\* errors at the first of them: the second was dispatched and did not
\* reach it.
C29_Witness ==
    \E i \in Ids :
        /\ pc = "idle"
        /\ Cardinality(Dispatches(ops)) >= 2
        /\ InfoNotes(notes, i, "too many errors") = 1
        /\ OtherCalls(calls, i) = 1
        /\ ~has_state(mods[i])

\* C30: exactly-once FIFO drain. The drain step of a tick runs every event
\* of the queue it finds, once each and in queue order: it dispatches as
\* many events as the queue held, with the names of the queue in order, and
\* a module that is subscribed to the custom event and stays Running is
\* invoked with the payloads of the queue in order. The queue it took is
\* gone afterwards: what is queued after the drain is what was sent during
\* it. Outside the drain step no queued event is removed.
CustomCallsTo(cs, i) ==
    SelectSeq(cs, LAMBDA c : c[1] = i /\ c[2] = CustomEvent)

C30_ExactlyOnceFifoDrain ==
    [][(pc' # pc) =>
          IF pc = "pending"
          THEN LET delivered == SelectSeq(ops', IsDispatch)
               IN /\ Len(delivered) = Len(pending)
                  /\ \A k \in 1..Len(delivered) : delivered[k][1] = pending[k][1]
                  /\ pending' = Queued(sends')
                  /\ \A i \in Ids :
                        (/\ has_state(mods[i])
                         /\ supports_event(mods[i].state, CustomEvent)
                         /\ has_state(mods'[i])) =>
                            LET got == CustomCallsTo(calls', i)
                            IN /\ Len(got) = Len(pending)
                               /\ \A k \in 1..Len(got) : got[k][3] = pending[k][2]
          ELSE pending' = pending \o Queued(sends')]_vars

\* C31: completion after despawn. The step that applies a compile
\* completion, a ModuleState or a compile error, for a module whose entity
\* was despawned while the compile was in flight installs nothing,
\* dispatches no module-loaded event, invokes no guest, and the host
\* survives it.
C31_CompletionAfterDespawn ==
    [][\A i \in Ids :
          ((AppliesSuccess(i) \/ AppliesFailure(i)) /\ ~mods[i].alive) =>
             /\ ~aborted'
             /\ ~has_state(mods'[i])
             /\ mods'[i] = mods[i]
             /\ OpsOf(ops', <<ModuleLoadEvent, i>>) = 0
             /\ calls' = <<>>]_vars

====
